---- MODULE Spec2Model ----
(***************************************************************************)
(* Model of the Script Editor plugin (src/src/lib.rs): the instance table  *)
(* `editors`, the id counter `next_editor_id`, their two mutexes, and the  *)
(* operations create_editor, on_load and on_unload, run by several host    *)
(* threads and interleaved at the granularity of the statements of lib.rs. *)
(*                                                                         *)
(* The UI collaborator (gpui) is modelled only through what lib.rs uses of *)
(* it: cx.new yields a fresh entity, open_file binds a path to it, and     *)
(* Entity / Arc handles are reference counted.                             *)
(*                                                                         *)
(* The registry queries file_types and editors and the EditorInstance      *)
(* methods of ScriptEditorWrapper (file_path, is_dirty, save, reload) are   *)
(* calls of the host; what plugin_save and plugin_reload report is an      *)
(* input. They are part of SpecWrap only, the host's drops of SpecHost     *)
(* only, and panicking drops of SpecTeardown only.                         *)
(*                                                                         *)
(* on_unload takes &mut self, but both fields are Arc<Mutex<..>> and the   *)
(* plugin is driven through export_plugin!; the model lets on_unload       *)
(* overlap create_editor at lock granularity, which only adds behaviours.  *)
(***************************************************************************)
EXTENDS Integers, Sequences, FiniteSets, TLC

\* ------------------------------------------------------------------ bounds
NumThreads == 2
MaxCalls == 3
MaxUnloads == 2
MaxDrops == 2
MaxHostCalls == 2
MaxOps == 2

\* --------------------------------------------------------------- constants
Threads == 1 .. NumThreads
NoThread == 0
NoEntity == 0
InitialId == 0
NoPath == ""
NoKind == ""
RegisteredKind == "script-editor"
EditorKinds == {"script-editor", "nonexistent-editor", "text-editor"}
Paths == {"/tmp/a.py", "/tmp/b.rs"}

VARIABLES
    editors,         \* HashMap<usize, EditorStorage> behind self.editors
    next_editor_id,  \* usize behind self.next_editor_id
    edLock,          \* owner of the Mutex of editors, or NoThread
    idLock,          \* owner of the Mutex of next_editor_id, or NoThread
    pc,              \* position of each thread in the call it runs
    editor_id,       \* argument editor_id of the running create_editor
    file_path,       \* argument file_path of the running create_editor
    panel,           \* local `panel` (the entity built by this call)
    id,              \* local `id`
    count,           \* local `count` of on_unload
    ret,             \* value returned by the thread's last call
    entRefs,         \* per entity: number of live Entity<ScriptEditorPanel> handles
    arcRefs,         \* per entity: strong count of its Arc<dyn PanelView>
    entFile,         \* per entity: the file it was told to open
    hostPanels,      \* entities whose Arc<dyn PanelView> the host still holds
    hostWrappers,    \* wrappers (Box<dyn EditorInstance>) the host still holds
    hist,            \* history: allocations, insertions and clears, in order
    calls,           \* history: number of create_editor calls so far
    drops,           \* history: number of handles the host has dropped
    wret,            \* value returned by the host's last registry or wrapper call
    ops,             \* history: number of registry and wrapper calls so far
    entOps           \* history: operations the wrappers invoked on entities

vars == <<editors, next_editor_id, edLock, idLock, pc, editor_id, file_path,
          panel, id, count, ret, entRefs, arcRefs, entFile, hostPanels,
          hostWrappers, hist, calls, drops, wret, ops, entOps>>

locks == <<edLock, idLock>>
args == <<editor_id, file_path>>
ents == <<entRefs, arcRefs, entFile>>
host == <<hostPanels, hostWrappers>>
wrap == <<wret, ops, entOps>>

\* ----------------------------------------------------------------- values
\* ScriptEditorWrapper { panel, file_path }
Wrapper(e, p) == [panel |-> e, file_path |-> p]

\* EditorStorage { panel, wrapper }
EditorStorage(e, w) == [panel |-> e, wrapper |-> w]

NoRet == [tag |-> "None", editor_id |-> NoKind, panel |-> NoEntity,
          wrapper |-> Wrapper(NoEntity, NoPath), count |-> 0]

\* Ok((panel_arc, wrapper))
OkRet(e, w) == [NoRet EXCEPT !.tag = "Ok", !.panel = e, !.wrapper = w]

\* Err(PluginError::EditorNotFound { editor_id })
EditorNotFound(k) == [NoRet EXCEPT !.tag = "EditorNotFound", !.editor_id = k]

\* on_unload returns (); the count it logs is kept with it
UnloadRet(n) == [NoRet EXCEPT !.tag = "Unloaded", !.count = n]

\* on_load returns ()
LoadRet == [NoRet EXCEPT !.tag = "Loaded"]

\* lines 74-147: the vector file_types() returns
FileTypeDefinition(i, ext, name, cat) ==
    [id |-> i, extension |-> ext, display_name |-> name,
     structure |-> "Standalone", categories |-> <<cat>>]

\* mutant of FileTypes: the TypeScript descriptor reuses the extension "js"
FileTypes_DuplicateExtension ==
    << FileTypeDefinition("rust_script", "rs", "Rust", "Scripts"),
       FileTypeDefinition("javascript", "js", "JavaScript", "Scripts"),
       FileTypeDefinition("typescript", "js", "TypeScript", "Scripts"),
       FileTypeDefinition("python", "py", "Python Script", "Scripts"),
       FileTypeDefinition("lua", "lua", "Lua Script", "Scripts"),
       FileTypeDefinition("toml", "toml", "TOML Configuration", "Data"),
       FileTypeDefinition("markdown", "md", "Markdown Document", "Documents") >>

FileTypes ==
    << FileTypeDefinition("rust_script", "rs", "Rust", "Scripts"),
       FileTypeDefinition("javascript", "js", "JavaScript", "Scripts"),
       FileTypeDefinition("typescript", "ts", "TypeScript", "Scripts"),
       FileTypeDefinition("python", "py", "Python Script", "Scripts"),
       FileTypeDefinition("lua", "lua", "Lua Script", "Scripts"),
       FileTypeDefinition("toml", "toml", "TOML Configuration", "Data"),
       FileTypeDefinition("markdown", "md", "Markdown Document", "Documents") >>

\* lines 149-163: the vector editors() returns
EditorMetadata(i, name, types) ==
    [id |-> i, display_name |-> name, supported_file_types |-> types]

\* mutant of Editors: the editor also claims a file type that is not defined
Editors_UnknownFileType ==
    << EditorMetadata("script-editor", "Script Editor",
           <<"rust_script", "javascript", "typescript", "python", "lua",
             "toml", "markdown", "yaml">>) >>

Editors ==
    << EditorMetadata("script-editor", "Script Editor",
           <<"rust_script", "javascript", "typescript", "python", "lua",
             "toml", "markdown">>) >>

\* Result<(), PluginError> of the entity's plugin_save / plugin_reload
OpResults == {"Ok", "Err"}

NoWret == [op |-> "None", panel |-> NoEntity, path |-> NoPath, dirty |-> FALSE,
           result |-> "None", list |-> <<>>]

\* an operation of an entity, invoked through its handle, and what it reported
EntityOp(op, e, r) == [op |-> op, panel |-> e, result |-> r]

\* a call that ended by unwinding from a panic instead of returning
PanicRet == [NoRet EXCEPT !.tag = "Panicked"]

\* state of a Mutex whose guard was dropped during a panic
Poisoned == NumThreads + 1

\* history events: "alloc" (n = the id taken), "insert" (n = the key),
\* "clear" (n = the count on_unload reports)
Event(op, n) == [op |-> op, n |-> n]

Events(op) == {i \in DOMAIN hist : hist[i].op = op}

Entities == DOMAIN entRefs

\* cx.new: the next entity of the UI framework
FreshEntity == Cardinality(Entities) + 1

Live(e) == e \in Entities /\ entRefs[e] > 0

Init ==
    /\ editors = <<>>
    /\ next_editor_id = InitialId
    /\ edLock = NoThread
    /\ idLock = NoThread
    /\ pc = [t \in Threads |-> "idle"]
    /\ editor_id = [t \in Threads |-> NoKind]
    /\ file_path = [t \in Threads |-> NoPath]
    /\ panel = [t \in Threads |-> NoEntity]
    /\ id = [t \in Threads |-> InitialId]
    /\ count = [t \in Threads |-> 0]
    /\ ret = [t \in Threads |-> NoRet]
    /\ entRefs = <<>>
    /\ arcRefs = <<>>
    /\ entFile = <<>>
    /\ hostPanels = {}
    /\ hostWrappers = {}
    /\ hist = <<>>
    /\ calls = 0
    /\ drops = 0
    /\ wret = NoWret
    /\ ops = 0
    /\ entOps = <<>>

\* ------------------------------------------------- reference counting
\* Drop of the EditorStorage records under the keys S of table m: each
\* releases one strong count of its Arc<dyn PanelView> (whose Entity handle
\* goes with the last count) and the Entity handle of its boxed wrapper.
ArcAfterDrop(m, S) ==
    [e \in Entities |-> arcRefs[e] - Cardinality({k \in S : m[k].panel = e})]

EntAfterDrop(m, S) ==
    [e \in Entities |->
        entRefs[e] - Cardinality({k \in S : m[k].wrapper.panel = e})
                   - (IF arcRefs[e] > 0 /\ ArcAfterDrop(m, S)[e] = 0 THEN 1 ELSE 0)]


\* mutant of MapInsert: the insertion replaces the whole table
MapInsert_Clobber(m, k, rec) == [j \in {k} |-> rec]

\* HashMap::insert: the record goes under key k, replacing what was there
MapInsert(m, k, rec) ==
    [j \in (DOMAIN m) \cup {k} |-> IF j = k THEN rec ELSE m[j]]


\* mutant of CanLock: lock() does not wait for the owner to release
CanLock_Always(lock) == TRUE

\* Mutex::lock: blocks until the mutex is free
CanLock(lock) == lock = NoThread

InCreate(t) ==
    pc[t] \in {"not_found", "lock_id", "incr_id", "lock_editors", "insert", "return"}

InUnload(t) == pc[t] \in {"u_lock", "u_clear", "u_log"}

\* the host takes the value a call returned; the thread is free for the next call
Resume(t) ==
    /\ pc[t] = "done"
    /\ pc' = [pc EXCEPT ![t] = "idle"]
    /\ ret' = [ret EXCEPT ![t] = NoRet]
    /\ UNCHANGED <<wrap, editors, next_editor_id, locks, args, panel, id, count, ents,
                   host, hist, calls, drops>>

\* ------------------------------------------------------- create_editor
\* mutant of IsScriptEditor: every editor kind is accepted
IsScriptEditor_Any(k) == k # NoKind

\* line 174: if editor_id.as_str() == "script-editor"
IsScriptEditor(k) == k = RegisteredKind

\* lines 165-186: entry, logger.info, the test of editor_id and, for the
\* script editor, the construction of the instance before any lock is taken:
\*   175      panel = cx.new(|cx| ScriptEditorPanel::new(window, cx))
\*   178-180  panel.update(cx, |editor, ecx| editor.open_file(file_path.clone(), ..))
\*   182      panel_arc = Arc::new(panel.clone())
\*   183-186  wrapper = Box::new(ScriptEditorWrapper { panel: panel.into(), file_path })
\* which leaves two Entity handles (in panel_arc and in wrapper) and one Arc count.
CreateEditor(t, k, p) ==
    /\ pc[t] = "idle"
    /\ calls < MaxCalls
    /\ calls' = calls + 1
    /\ editor_id' = [editor_id EXCEPT ![t] = k]
    /\ file_path' = [file_path EXCEPT ![t] = p]
    /\ IF IsScriptEditor(k)
       THEN /\ panel' = [panel EXCEPT ![t] = FreshEntity]
            /\ entRefs' = [e \in Entities \cup {FreshEntity} |->
                              IF e = FreshEntity THEN 2 ELSE entRefs[e]]
            /\ arcRefs' = [e \in Entities \cup {FreshEntity} |->
                              IF e = FreshEntity THEN 1 ELSE arcRefs[e]]
            /\ entFile' = [e \in Entities \cup {FreshEntity} |->
                              IF e = FreshEntity THEN p ELSE entFile[e]]
            /\ pc' = [pc EXCEPT ![t] = "lock_id"]
       ELSE /\ pc' = [pc EXCEPT ![t] = "not_found"]
            /\ UNCHANGED <<panel, ents>>
    /\ UNCHANGED <<wrap, editors, next_editor_id, locks, id, count, ret, host, hist,
                   drops>>

\* mutant of NotFound: the failing call takes an id before it returns
NotFound_ConsumesId(t) ==
    /\ pc[t] = "not_found"
    /\ next_editor_id' = next_editor_id + 1
    /\ ret' = [ret EXCEPT ![t] = EditorNotFound(editor_id[t])]
    /\ pc' = [pc EXCEPT ![t] = "done"]
    /\ editor_id' = [editor_id EXCEPT ![t] = NoKind]
    /\ file_path' = [file_path EXCEPT ![t] = NoPath]
    /\ UNCHANGED <<wrap, editors, locks, panel, id, count, ents, host,
                   hist, calls, drops>>

\* lines 202-204: Err(PluginError::EditorNotFound { editor_id })
NotFound(t) ==
    /\ pc[t] = "not_found"
    /\ ret' = [ret EXCEPT ![t] = EditorNotFound(editor_id[t])]
    /\ pc' = [pc EXCEPT ![t] = "done"]
    /\ editor_id' = [editor_id EXCEPT ![t] = NoKind]
    /\ file_path' = [file_path EXCEPT ![t] = NoPath]
    /\ UNCHANGED <<wrap, editors, next_editor_id, locks, panel, id, count, ents, host,
                   hist, calls, drops>>


\* mutant of LockNextId: the counter is read without taking its lock
LockNextId_Racy(t) ==
    /\ pc[t] = "lock_id"
    /\ id' = [id EXCEPT ![t] = next_editor_id]
    /\ pc' = [pc EXCEPT ![t] = "incr_id"]
    /\ UNCHANGED <<wrap, editors, next_editor_id, locks, args, panel, count, ret, ents,
                   host, hist, calls, drops>>

\* mutant of LockNextId: the id is derived from the size of the table
LockNextId_IdFromLen(t) ==
    /\ pc[t] = "lock_id"
    /\ CanLock(idLock)
    /\ idLock' = t
    /\ id' = [id EXCEPT ![t] = Cardinality(DOMAIN editors)]
    /\ pc' = [pc EXCEPT ![t] = "incr_id"]
    /\ UNCHANGED <<wrap, editors, next_editor_id, edLock, args, panel, count, ret, ents,
                   host, hist, calls, drops>>

\* lines 189-190: let mut next_id = self.next_editor_id.lock().unwrap(); let id = *next_id
LockNextId(t) ==
    /\ pc[t] = "lock_id"
    /\ CanLock(idLock)
    /\ idLock' = t
    /\ id' = [id EXCEPT ![t] = next_editor_id]
    /\ pc' = [pc EXCEPT ![t] = "incr_id"]
    /\ UNCHANGED <<wrap, editors, next_editor_id, edLock, args, panel, count, ret, ents,
                   host, hist, calls, drops>>


\* mutant of IncrNextId: the increment of line 191 is lost
IncrNextId_NoIncrement(t) ==
    /\ pc[t] = "incr_id"
    /\ next_editor_id' = next_editor_id
    /\ idLock' = IF idLock = t THEN NoThread ELSE idLock
    /\ hist' = Append(hist, Event("alloc", id[t]))
    /\ pc' = [pc EXCEPT ![t] = "lock_editors"]
    /\ UNCHANGED <<wrap, editors, edLock, args, panel, id, count, ret, ents, host,
                   calls, drops>>

\* mutant of IncrNextId: the guard of the counter outlives the block
IncrNextId_KeepsGuard(t) ==
    /\ pc[t] = "incr_id"
    /\ next_editor_id' = next_editor_id + 1
    /\ hist' = Append(hist, Event("alloc", id[t]))
    /\ pc' = [pc EXCEPT ![t] = "lock_editors"]
    /\ UNCHANGED <<wrap, editors, locks, args, panel, id, count, ret, ents, host,
                   calls, drops>>

\* lines 191-193: *next_id += 1; the block yields id and its guard is dropped
IncrNextId(t) ==
    /\ pc[t] = "incr_id"
    /\ next_editor_id' = next_editor_id + 1
    /\ idLock' = IF idLock = t THEN NoThread ELSE idLock
    /\ hist' = Append(hist, Event("alloc", id[t]))
    /\ pc' = [pc EXCEPT ![t] = "lock_editors"]
    /\ UNCHANGED <<wrap, editors, edLock, args, panel, id, count, ret, ents, host,
                   calls, drops>>


\* mutant of LockEditors: the record takes the handles without cloning them
LockEditors_NoClone(t) ==
    /\ pc[t] = "lock_editors"
    /\ CanLock(edLock)
    /\ edLock' = t
    /\ pc' = [pc EXCEPT ![t] = "insert"]
    /\ UNCHANGED <<wrap, editors, next_editor_id, idLock, args, panel, id, count, ret,
                   ents, host, hist, calls, drops>>

\* lines 195-197: self.editors.lock().unwrap(), then the argument of insert,
\* EditorStorage { panel: panel_arc.clone(), wrapper: wrapper.clone() }
LockEditors(t) ==
    /\ pc[t] = "lock_editors"
    /\ CanLock(edLock)
    /\ edLock' = t
    /\ arcRefs' = [arcRefs EXCEPT ![panel[t]] = @ + 1]
    /\ entRefs' = [entRefs EXCEPT ![panel[t]] = @ + 1]
    /\ pc' = [pc EXCEPT ![t] = "insert"]
    /\ UNCHANGED <<wrap, editors, next_editor_id, idLock, args, panel, id, count, ret,
                   entFile, host, hist, calls, drops>>

\* the record lines 195-198 insert
NewRecord(t) == EditorStorage(panel[t], Wrapper(panel[t], file_path[t]))

\* mutant of Insert: the record goes under the current value of the counter
Insert_UnderCounterValue(t) ==
    /\ pc[t] = "insert"
    /\ editors' = MapInsert(editors, next_editor_id, NewRecord(t))
    /\ arcRefs' = ArcAfterDrop(editors, (DOMAIN editors) \cap {next_editor_id})
    /\ entRefs' = EntAfterDrop(editors, (DOMAIN editors) \cap {next_editor_id})
    /\ edLock' = IF edLock = t THEN NoThread ELSE edLock
    /\ hist' = Append(hist, Event("insert", next_editor_id))
    /\ pc' = [pc EXCEPT ![t] = "return"]
    /\ UNCHANGED <<wrap, next_editor_id, idLock, args, panel, id, count, ret, entFile,
                   host, calls, drops>>

\* lines 195-198: .insert(id, ..); the replaced record, if any, and the guard
\* are dropped at the end of the statement
Insert(t) ==
    /\ pc[t] = "insert"
    /\ editors' = MapInsert(editors, id[t], NewRecord(t))
    /\ arcRefs' = ArcAfterDrop(editors, (DOMAIN editors) \cap {id[t]})
    /\ entRefs' = EntAfterDrop(editors, (DOMAIN editors) \cap {id[t]})
    /\ edLock' = IF edLock = t THEN NoThread ELSE edLock
    /\ hist' = Append(hist, Event("insert", id[t]))
    /\ pc' = [pc EXCEPT ![t] = "return"]
    /\ UNCHANGED <<wrap, next_editor_id, idLock, args, panel, id, count, ret, entFile,
                   host, calls, drops>>

\* lines 200-201: log::info!(..); Ok((panel_arc, wrapper))
Return(t) ==
    /\ pc[t] = "return"
    /\ ret' = [ret EXCEPT ![t] = OkRet(panel[t], Wrapper(panel[t], file_path[t]))]
    /\ hostPanels' = hostPanels \cup {panel[t]}
    /\ hostWrappers' = hostWrappers \cup {Wrapper(panel[t], file_path[t])}
    /\ pc' = [pc EXCEPT ![t] = "done"]
    /\ editor_id' = [editor_id EXCEPT ![t] = NoKind]
    /\ file_path' = [file_path EXCEPT ![t] = NoPath]
    /\ panel' = [panel EXCEPT ![t] = NoEntity]
    /\ id' = [id EXCEPT ![t] = InitialId]
    /\ UNCHANGED <<wrap, editors, next_editor_id, locks, count, ents, hist,
                   calls, drops>>

\* ------------------------------------------------------ on_load, on_unload
\* lines 207-209: on_load only logs
OnLoad(t) ==
    /\ pc[t] = "idle"
    /\ ret' = [ret EXCEPT ![t] = LoadRet]
    /\ pc' = [pc EXCEPT ![t] = "done"]
    /\ UNCHANGED <<wrap, editors, next_editor_id, locks, args, panel, id, count, ents,
                   host, hist, calls, drops>>

UnloadsStarted ==
    Cardinality(Events("clear")) + Cardinality({t \in Threads : InUnload(t)})

\* line 211: entry of on_unload
OnUnload(t) ==
    /\ pc[t] = "idle"
    /\ UnloadsStarted < MaxUnloads
    /\ pc' = [pc EXCEPT ![t] = "u_lock"]
    /\ UNCHANGED <<wrap, editors, next_editor_id, locks, args, panel, id, count, ret, ents,
                   host, hist, calls, drops>>


\* mutant of UnloadLock: the count is taken as if the table were already cleared
UnloadLock_CountAfterClear(t) ==
    /\ pc[t] = "u_lock"
    /\ CanLock(edLock)
    /\ edLock' = t
    /\ count' = [count EXCEPT ![t] = 0]
    /\ pc' = [pc EXCEPT ![t] = "u_clear"]
    /\ UNCHANGED <<wrap, editors, next_editor_id, idLock, args, panel, id, ret, ents,
                   host, hist, calls, drops>>

\* lines 212-213: let mut editors = self.editors.lock().unwrap();
\* let count = editors.len()
UnloadLock(t) ==
    /\ pc[t] = "u_lock"
    /\ CanLock(edLock)
    /\ edLock' = t
    /\ count' = [count EXCEPT ![t] = Cardinality(DOMAIN editors)]
    /\ pc' = [pc EXCEPT ![t] = "u_clear"]
    /\ UNCHANGED <<wrap, editors, next_editor_id, idLock, args, panel, id, ret, ents,
                   host, hist, calls, drops>>


\* mutant of UnloadClear: unloading also resets the id counter
UnloadClear_ResetsCounter(t) ==
    /\ pc[t] = "u_clear"
    /\ editors' = <<>>
    /\ next_editor_id' = InitialId
    /\ arcRefs' = ArcAfterDrop(editors, DOMAIN editors)
    /\ entRefs' = EntAfterDrop(editors, DOMAIN editors)
    /\ pc' = [pc EXCEPT ![t] = "u_log"]
    /\ UNCHANGED <<wrap, locks, args, panel, id, count, ret, entFile, host, hist,
                   calls, drops>>

\* line 214: editors.clear() drops every record of the table
UnloadClear(t) ==
    /\ pc[t] = "u_clear"
    /\ editors' = <<>>
    /\ arcRefs' = ArcAfterDrop(editors, DOMAIN editors)
    /\ entRefs' = EntAfterDrop(editors, DOMAIN editors)
    /\ pc' = [pc EXCEPT ![t] = "u_log"]
    /\ UNCHANGED <<wrap, next_editor_id, locks, args, panel, id, count, ret, entFile,
                   host, hist, calls, drops>>

\* lines 215-216: log::info!(".. (cleaned up {} editors)", count); the guard
\* `editors` is dropped at the end of the function
UnloadReturn(t) ==
    /\ pc[t] = "u_log"
    /\ hist' = Append(hist, Event("clear", count[t]))
    /\ edLock' = IF edLock = t THEN NoThread ELSE edLock
    /\ ret' = [ret EXCEPT ![t] = UnloadRet(count[t])]
    /\ count' = [count EXCEPT ![t] = 0]
    /\ pc' = [pc EXCEPT ![t] = "done"]
    /\ UNCHANGED <<wrap, editors, next_editor_id, idLock, args, panel, id, ents, host,
                   calls, drops>>

\* ------------------------------------------------- failing teardown
\* line 214 when the drop of record k panics (Drop cannot report a failure in
\* another way, and on_unload has no catch_unwind): the records under D were
\* dropped before it, HashMap::clear resets the table without dropping the
\* others, and the panic unwinds through on_unload: line 215 is not reached
\* and the guard of line 212 is dropped while panicking, which poisons the mutex.
UnloadClearPanics(t, k, D) ==
    /\ pc[t] = "u_clear"
    /\ k \in DOMAIN editors
    /\ D \subseteq (DOMAIN editors) \ {k}
    /\ editors' = <<>>
    /\ arcRefs' = ArcAfterDrop(editors, D \cup {k})
    /\ entRefs' = EntAfterDrop(editors, D \cup {k})
    /\ edLock' = Poisoned
    /\ ret' = [ret EXCEPT ![t] = PanicRet]
    /\ count' = [count EXCEPT ![t] = 0]
    /\ pc' = [pc EXCEPT ![t] = "done"]
    /\ UNCHANGED <<wrap, next_editor_id, idLock, args, panel, id, entFile, host,
                   hist, calls, drops>>

\* lines 195 and 212: self.editors.lock().unwrap() on a poisoned mutex panics;
\* in create_editor the unwinding drops the locals panel_arc and wrapper
LockPoisoned(t) ==
    /\ pc[t] \in {"lock_editors", "u_lock"}
    /\ edLock = Poisoned
    /\ IF pc[t] = "lock_editors"
       THEN /\ arcRefs' = [arcRefs EXCEPT ![panel[t]] = @ - 1]
            /\ entRefs' = [entRefs EXCEPT ![panel[t]] = @ - 2]
       ELSE UNCHANGED <<arcRefs, entRefs>>
    /\ ret' = [ret EXCEPT ![t] = PanicRet]
    /\ editor_id' = [editor_id EXCEPT ![t] = NoKind]
    /\ file_path' = [file_path EXCEPT ![t] = NoPath]
    /\ panel' = [panel EXCEPT ![t] = NoEntity]
    /\ id' = [id EXCEPT ![t] = InitialId]
    /\ pc' = [pc EXCEPT ![t] = "done"]
    /\ UNCHANGED <<wrap, editors, next_editor_id, locks, count, entFile, host,
                   hist, calls, drops>>

\* ------------------------------------------------- the host's handles
\* mutant of HostDropPanel: dropping one Arc count always releases the entity
\* handle inside the Arc, also when other counts remain
HostDropPanel_ReleasesEntity(e) ==
    /\ e \in hostPanels
    /\ drops < MaxDrops
    /\ drops' = drops + 1
    /\ hostPanels' = hostPanels \ {e}
    /\ arcRefs' = [arcRefs EXCEPT ![e] = @ - 1]
    /\ entRefs' = [entRefs EXCEPT ![e] = @ - 1]
    /\ UNCHANGED <<wrap, editors, next_editor_id, locks, pc, args, panel, id, count,
                   ret, entFile, hostWrappers, hist, calls>>

\* line 172: the host owns the Arc<dyn PanelView> it was returned, and drops it
HostDropPanel(e) ==
    /\ e \in hostPanels
    /\ drops < MaxDrops
    /\ drops' = drops + 1
    /\ hostPanels' = hostPanels \ {e}
    /\ arcRefs' = [arcRefs EXCEPT ![e] = @ - 1]
    /\ entRefs' = [entRefs EXCEPT ![e] = IF arcRefs[e] = 1 THEN @ - 1 ELSE @]
    /\ UNCHANGED <<wrap, editors, next_editor_id, locks, pc, args, panel, id, count,
                   ret, entFile, hostWrappers, hist, calls>>

\* line 172: the host owns the Box<dyn EditorInstance> it was returned, and drops it
HostDropWrapper(w) ==
    /\ w \in hostWrappers
    /\ drops < MaxDrops
    /\ drops' = drops + 1
    /\ hostWrappers' = hostWrappers \ {w}
    /\ entRefs' = [entRefs EXCEPT ![w.panel] = @ - 1]
    /\ UNCHANGED <<wrap, editors, next_editor_id, locks, pc, args, panel, id, count,
                   ret, arcRefs, entFile, hostPanels, hist, calls>>

\* ------------------------------------------- registry and wrapper calls
\* lines 74-147: file_types(&self)
CallFileTypes ==
    /\ ops < MaxOps
    /\ ops' = ops + 1
    /\ wret' = [NoWret EXCEPT !.op = "file_types", !.list = FileTypes]
    /\ UNCHANGED <<editors, next_editor_id, locks, pc, args, panel, id, count,
                   ret, ents, host, hist, calls, drops, entOps>>

\* lines 149-163: editors(&self)
CallEditors ==
    /\ ops < MaxOps
    /\ ops' = ops + 1
    /\ wret' = [NoWret EXCEPT !.op = "editors", !.list = Editors]
    /\ UNCHANGED <<editors, next_editor_id, locks, pc, args, panel, id, count,
                   ret, ents, host, hist, calls, drops, entOps>>

\* lines 226-228: fn file_path(&self) -> &PathBuf { &self.file_path }
FilePath(w) == w.file_path

WrapperFilePath(w) ==
    /\ w \in hostWrappers
    /\ ops < MaxOps
    /\ ops' = ops + 1
    /\ wret' = [NoWret EXCEPT !.op = "file_path", !.panel = w.panel,
                              !.path = FilePath(w)]
    /\ UNCHANGED <<editors, next_editor_id, locks, pc, args, panel, id, count,
                   ret, ents, host, hist, calls, drops, entOps>>

\* lines 242-244: fn is_dirty(&self) -> bool { false }
IsDirty(w) == FALSE

WrapperIsDirty(w) ==
    /\ w \in hostWrappers
    /\ ops < MaxOps
    /\ ops' = ops + 1
    /\ wret' = [NoWret EXCEPT !.op = "is_dirty", !.panel = w.panel,
                              !.dirty = IsDirty(w)]
    /\ UNCHANGED <<editors, next_editor_id, locks, pc, args, panel, id, count,
                   ret, ents, host, hist, calls, drops, entOps>>


\* mutant of WrapperSave: saving rebinds the wrapper to another path
WrapperSave_SaveAs(w, r) ==
    /\ w \in hostWrappers
    /\ ops < MaxOps
    /\ ops' = ops + 1
    /\ entOps' = Append(entOps, EntityOp("plugin_save", w.panel, r))
    /\ wret' = [NoWret EXCEPT !.op = "save", !.panel = w.panel, !.result = r]
    /\ hostWrappers' = (hostWrappers \ {w}) \cup
           {Wrapper(w.panel, CHOOSE p \in Paths : p # w.file_path)}
    /\ UNCHANGED <<editors, next_editor_id, locks, pc, args, panel, id, count,
                   ret, ents, hostPanels, hist, calls, drops>>

\* mutant of WrapperSave: a failed plugin_save is tried once more
WrapperSave_RetryOnError(w, r) ==
    /\ w \in hostWrappers
    /\ ops < MaxOps
    /\ ops' = ops + 1
    /\ \E r2 \in OpResults :
          /\ entOps' = IF r = "Err"
                       THEN entOps \o <<EntityOp("plugin_save", w.panel, r),
                                        EntityOp("plugin_save", w.panel, r2)>>
                       ELSE Append(entOps, EntityOp("plugin_save", w.panel, r))
          /\ wret' = [NoWret EXCEPT !.op = "save", !.panel = w.panel,
                                    !.result = IF r = "Err" THEN r2 ELSE r]
    /\ UNCHANGED <<editors, next_editor_id, locks, pc, args, panel, id, count,
                   ret, ents, host, hist, calls, drops>>

\* lines 230-234: self.panel.update(cx, |panel, cx| panel.plugin_save(window, cx));
\* r is what plugin_save reports
WrapperSave(w, r) ==
    /\ w \in hostWrappers
    /\ ops < MaxOps
    /\ ops' = ops + 1
    /\ entOps' = Append(entOps, EntityOp("plugin_save", w.panel, r))
    /\ wret' = [NoWret EXCEPT !.op = "save", !.panel = w.panel, !.result = r]
    /\ UNCHANGED <<editors, next_editor_id, locks, pc, args, panel, id, count,
                   ret, ents, host, hist, calls, drops>>


\* mutant of WrapperReload: reloading also takes the entity's record out of the table
WrapperReload_RemovesRecord(w, r) ==
    /\ w \in hostWrappers
    /\ ops < MaxOps
    /\ ops' = ops + 1
    /\ entOps' = Append(entOps, EntityOp("plugin_reload", w.panel, r))
    /\ wret' = [NoWret EXCEPT !.op = "reload", !.panel = w.panel, !.result = r]
    /\ editors' = [k \in {j \in DOMAIN editors : editors[j].panel # w.panel} |->
                      editors[k]]
    /\ UNCHANGED <<next_editor_id, locks, pc, args, panel, id, count,
                   ret, ents, host, hist, calls, drops>>

\* lines 236-240: self.panel.update(cx, |panel, cx| panel.plugin_reload(window, cx));
\* r is what plugin_reload reports
WrapperReload(w, r) ==
    /\ w \in hostWrappers
    /\ ops < MaxOps
    /\ ops' = ops + 1
    /\ entOps' = Append(entOps, EntityOp("plugin_reload", w.panel, r))
    /\ wret' = [NoWret EXCEPT !.op = "reload", !.panel = w.panel, !.result = r]
    /\ UNCHANGED <<editors, next_editor_id, locks, pc, args, panel, id, count,
                   ret, ents, host, hist, calls, drops>>

\* ------------------------------------------------------- specification
\* the host calls into the plugin on thread t
Start(t) ==
    \/ OnLoad(t)
    \/ \E k \in EditorKinds, p \in Paths : CreateEditor(t, k, p)
    \/ OnUnload(t)

\* the call running on thread t takes its next step
Step(t) ==
    \/ NotFound(t)
    \/ LockNextId(t)
    \/ IncrNextId(t)
    \/ LockEditors(t)
    \/ Insert(t)
    \/ Return(t)
    \/ UnloadLock(t)
    \/ UnloadClear(t)
    \/ UnloadReturn(t)
    \/ Resume(t)

Next == \E t \in Threads : Start(t) \/ Step(t)

Spec == Init /\ [][Next]_vars

\* fair scheduling: a thread whose call can take a step (it is not blocked on
\* a mutex another thread holds) eventually takes one
FairSpec == Spec /\ \A t \in Threads : WF_vars(Step(t))

\* the plugin's operations together with the host dropping the handles it holds
HostStart(t) ==
    \/ OnLoad(t)
    \/ calls < MaxHostCalls /\ \E k \in EditorKinds, p \in Paths : CreateEditor(t, k, p)
    \/ OnUnload(t)

HostNext ==
    \/ \E t \in Threads : HostStart(t) \/ Step(t)
    \/ \E e \in hostPanels : HostDropPanel(e)
    \/ \E w \in hostWrappers : HostDropWrapper(w)

SpecHost == Init /\ [][HostNext]_vars

\* the runs in which the host issues one call at a time
OthersIdle(t) == \A u \in Threads \ {t} : pc[u] = "idle"

SeqStart(t) == OthersIdle(t) /\ Start(t)

SeqNext == \E t \in Threads : SeqStart(t) \/ Step(t)

SpecSeq == Init /\ [][SeqNext]_vars

\* the plugin's operations together with the host's registry queries and its
\* calls on the wrappers it holds
WrapperCall(w) ==
    \/ WrapperFilePath(w)
    \/ WrapperIsDirty(w)
    \/ \E r \in OpResults : WrapperSave(w, r)
    \/ \E r \in OpResults : WrapperReload(w, r)

WrapNext ==
    \/ \E t \in Threads : HostStart(t) \/ Step(t)
    \/ CallFileTypes
    \/ CallEditors
    \/ \E w \in hostWrappers : WrapperCall(w)

SpecWrap == Init /\ [][WrapNext]_vars

\* the runs, one call at a time, in which the teardown of a record may panic
TeardownNext ==
    \/ \E t \in Threads : SeqStart(t) \/ Step(t)
    \/ \E t \in Threads : \E k \in DOMAIN editors :
          \E D \in SUBSET (DOMAIN editors) : UnloadClearPanics(t, k, D)
    \/ \E t \in Threads : LockPoisoned(t)

SpecTeardown == Init /\ [][TeardownNext]_vars

\* =================================================================== claims
Allocs == Events("alloc")
Inserts == Events("insert")
Clears == Events("clear")

\* two calls allocated in one order and inserted in the other
InsertedOutOfAllocationOrder ==
    \E i, j \in Inserts : i < j /\ hist[i].n > hist[j].n

\* C1: the ids handed out by the allocations are pairwise distinct and strictly
\* increasing in the order in which the allocations take effect, also when the
\* insertions into the table happen in another order.
C1_IdsIncreaseInAllocationOrder ==
    \A i, j \in Allocs : i < j => hist[i].n < hist[j].n

C1_Witness ==
    /\ Cardinality(Allocs) = MaxCalls
    /\ InsertedOutOfAllocationOrder

\* C2: with no on_unload, once all create_editor calls with the registered kind
\* have returned, every one of them has succeeded, they are registered under
\* distinct ids, and the table holds exactly one record per call.
NoUnloadStarted == UnloadsStarted = 0

NoCreateRunning == \A t \in Threads : ~InCreate(t)

RegisteredEntities == {editors[k].panel : k \in DOMAIN editors}

C2_ConcurrentCreatesAllRegistered ==
    /\ \A t \in Threads :
          (pc[t] = "done" /\ ret[t].tag = "EditorNotFound")
              => ret[t].editor_id # RegisteredKind
    /\ (NoUnloadStarted /\ NoCreateRunning) =>
          /\ Cardinality(DOMAIN editors) = Cardinality(Entities)
          /\ RegisteredEntities = Entities
          /\ hostPanels = Entities
          /\ Cardinality(Allocs) = Cardinality(Entities)

C2_Witness ==
    /\ NoUnloadStarted
    /\ NoCreateRunning
    /\ Cardinality(DOMAIN editors) = MaxCalls
    /\ InsertedOutOfAllocationOrder

\* C3: create_editor with an unregistered editor kind returns EditorNotFound
\* carrying the id it was passed, and no step of the call changes the table,
\* the counter or any entity.
C3_UnknownKindLeavesStoreUnchanged ==
    [][\A t \in Threads :
          /\ (pc[t] = "idle" /\ InCreate(t)' /\ editor_id'[t] # RegisteredKind)
                => /\ pc'[t] = "not_found"
                   /\ UNCHANGED <<editors, next_editor_id, ents, locks>>
          /\ (pc[t] = "not_found" /\ pc'[t] # "not_found")
                => /\ pc'[t] = "done"
                   /\ ret'[t] = EditorNotFound(editor_id[t])
                   /\ UNCHANGED <<editors, next_editor_id, ents, locks>>]_vars

C3_Witness ==
    \E t, u \in Threads :
        /\ pc[t] = "done"
        /\ ret[t] = EditorNotFound("nonexistent-editor")
        /\ pc[u] = "insert"
        /\ editors # <<>>

\* C4: on_unload removes every record that is in the table when it takes the
\* lock, reports their number and leaves the table empty; an on_unload that
\* follows another with no insertion in between reports 0.
InsertsBefore(i) ==
    {j \in Inserts : j < i /\ \A c \in Clears : ~(j < c /\ c < i)}

C4_UnloadRemovesAllAndReportsCount ==
    /\ \A t \in Threads :
          /\ pc[t] = "u_clear" => (edLock = t /\ count[t] = Cardinality(DOMAIN editors))
          /\ pc[t] = "u_log" => (edLock = t /\ editors = <<>>)
    /\ \A i \in Clears : hist[i].n = Cardinality(InsertsBefore(i))
    /\ \A i \in Clears : (i > 1 /\ hist[i - 1].op = "clear") => hist[i].n = 0

C4_Witness ==
    /\ Len(hist) = 4
    /\ hist[2] = Event("insert", 0)
    /\ hist[3] = Event("clear", 1)
    /\ hist[4] = Event("clear", 0)
    /\ editors = <<>>

\* C5: the insertion of a create_editor call adds exactly one record: the
\* records already there stay as they are, and the new one is keyed by the id
\* the call allocated and pairs the render handle and the wrapper of the
\* entity the call built; no other step of the call changes the table.
C5_CreateAddsExactlyOneRecord ==
    [][\A t \in Threads :
          /\ (pc[t] = "insert" /\ pc'[t] # "insert")
                => /\ id[t] \notin DOMAIN editors
                   /\ DOMAIN editors' = (DOMAIN editors) \cup {id[t]}
                   /\ Cardinality(DOMAIN editors') = Cardinality(DOMAIN editors) + 1
                   /\ \A k \in DOMAIN editors : editors'[k] = editors[k]
                   /\ editors'[id[t]] =
                          EditorStorage(panel[t], Wrapper(panel[t], file_path[t]))
                   /\ entFile[panel[t]] = file_path[t]
                   /\ panel[t] \notin RegisteredEntities
          /\ (pc[t] # "insert" /\ pc'[t] # pc[t] /\ (InCreate(t) \/ InCreate(t)'))
                => editors' = editors]_vars

C5_Witness ==
    \E t \in Threads :
        /\ pc[t] = "return"
        /\ \A u \in Threads \ {t} : pc[u] = "idle"
        /\ Cardinality(DOMAIN editors) = 2
        /\ id[t] \in DOMAIN editors

\* C6: an id is never reused: every id allocated after an on_unload is greater
\* than every id allocated before it, and the counter stays above every id
\* ever allocated, whether or not its record is still in the table.
C6_IdsNeverReusedAcrossUnload ==
    /\ \A i, j \in Allocs : \A c \in Clears :
          (i < c /\ c < j) => hist[i].n < hist[j].n
    /\ \A i \in Allocs : hist[i].n < next_editor_id

C6_Witness ==
    /\ \E i, j \in Allocs : \E c \in Clears : i < c /\ c < j
    /\ editors # <<>>

\* C7 (as claimed): the allocation of the id and the insertion of the record
\* form one critical section: between the two, no other call's allocation,
\* insertion or clear takes effect.
AllocatedNotInserted(t) == pc[t] \in {"lock_editors", "insert"}

C7_AllocAndInsertOneCriticalSection ==
    [][\A t \in Threads :
          (AllocatedNotInserted(t) /\ pc'[t] = pc[t])
              => UNCHANGED <<next_editor_id, editors>>]_vars

\* C7 (amended): the counter has a lock of its own. The read and the increment
\* of the counter are one critical section under that lock, the insertion is
\* another under the table lock, and no thread holds both locks.
C7_TwoSeparateCriticalSections ==
    \A t \in Threads :
        /\ pc[t] = "incr_id" => (idLock = t /\ edLock # t /\ id[t] = next_editor_id)
        /\ pc[t] = "insert" => (edLock = t /\ idLock # t /\ id[t] < next_editor_id)
        /\ pc[t] = "lock_editors" => (idLock # t /\ edLock # t)

\* another call allocated and inserted between this call's allocation and insertion
C7_Witness ==
    \E t \in Threads :
        /\ pc[t] = "lock_editors"
        /\ \E i \in Allocs : \E j \in Inserts :
              /\ hist[i].n > id[t]
              /\ hist[j].n > id[t]

\* C8: a thread that holds the table lock or the counter lock only mutates the
\* table or the counter: no step it takes while holding a lock constructs,
\* opens or tears down an entity.
HoldsLock(t) == edLock = t \/ idLock = t

C8_NoEntityOperationUnderLock ==
    [][\A t \in Threads :
          (HoldsLock(t) /\ pc'[t] # pc[t]) => UNCHANGED ents]_vars

\* C9: whenever a create_editor call inserts its record, its id is not a key
\* of the table, so no insertion replaces a record.
C9_InsertNeverOverwrites ==
    \A t \in Threads : pc[t] = "insert" => id[t] \notin DOMAIN editors

C9_Witness ==
    \E t \in Threads :
        /\ pc[t] = "insert"
        /\ editors # <<>>
        /\ Clears # {}
        /\ \E k \in DOMAIN editors : k > id[t]

\* C10: every key of the table names a record of exactly one live entity, and
\* no two records refer to the same entity.
C10_RecordsNameDistinctLiveEntities ==
    /\ \A k \in DOMAIN editors :
          /\ Live(editors[k].panel)
          /\ arcRefs[editors[k].panel] >= 1
          /\ editors[k].wrapper.panel = editors[k].panel
    /\ \A k1, k2 \in DOMAIN editors :
          editors[k1].panel = editors[k2].panel => k1 = k2

\* two records, one of them of an entity the host holds no handle of any more
C10_Witness ==
    /\ Cardinality(DOMAIN editors) = 2
    /\ \E k \in DOMAIN editors :
          /\ editors[k].panel \notin hostPanels
          /\ editors[k].wrapper \notin hostWrappers
          /\ \A t \in Threads : panel[t] # editors[k].panel

\* the holders of an entity: the host (through the render handle or the
\* wrapper it was returned), the table (through a record), and a running
\* create_editor call (through its locals panel_arc and wrapper)
HostHolds(e) == e \in hostPanels \/ \E w \in hostWrappers : w.panel = e

StoreHolds(e) ==
    \E k \in DOMAIN editors : editors[k].panel = e \/ editors[k].wrapper.panel = e

CallHolds(e) == \E t \in Threads : panel[t] = e

\* C11: the host's handles and the record of the table share ownership of the
\* entity: an entity is live while the host holds one of its handles (also
\* after on_unload removed its record), live while its record is in the table
\* (also after the host dropped its handles), and destroyed once no one holds it.
C11_EntityLivesAsLongAsLongestHolder ==
    \A e \in Entities :
        /\ (HostHolds(e) \/ StoreHolds(e) \/ CallHolds(e)) => Live(e)
        /\ Live(e) => (HostHolds(e) \/ StoreHolds(e) \/ CallHolds(e))
        /\ entRefs[e] >= 0

\* after an on_unload, one entity is destroyed (the host dropped both handles)
\* and another lives on through the handles the host still holds
C11_Witness ==
    /\ Clears # {}
    /\ editors = <<>>
    /\ \E e1, e2 \in Entities :
          /\ ~Live(e1)
          /\ Live(e2)
          /\ e2 \in hostPanels
          /\ ~CallHolds(e2)

\* C12: a record of the table stays where it is, unchanged, until the clear of
\* an on_unload removes it: no step of create_editor (successful or not),
\* on_load, save, reload, is_dirty or file_path removes or modifies it.
ClearStep == \E t \in Threads : pc[t] = "u_clear" /\ pc'[t] = "u_log"

C12_RecordStaysUntilUnload ==
    [][\A k \in DOMAIN editors :
          \/ k \in DOMAIN editors' /\ editors'[k] = editors[k]
          \/ ClearStep /\ editors' = <<>>]_vars

\* two records have outlived a later insertion, an on_load, a failed save and
\* an is_dirty call
C12_Witness ==
    /\ Cardinality(DOMAIN editors) = 2
    /\ \E i \in DOMAIN entOps : entOps[i] = EntityOp("plugin_save", 1, "Err")
    /\ wret.op = "is_dirty"
    /\ \E t \in Threads : pc[t] = "done" /\ ret[t] = LoadRet

\* C13: a failing teardown of one record does not abort on_unload: whichever
\* records fail to tear down, on_unload removes every record, tears down the
\* others, leaves the table empty and usable, and returns without panicking.
C13_TeardownFailureDoesNotAbortUnload ==
    /\ \A t \in Threads : ret[t] # PanicRet
    /\ edLock # Poisoned
    /\ \A t \in Threads : pc[t] = "u_log" => editors = <<>>

\* lines 8-14: the extensions in the order the module documentation lists them
DocumentedExtensions == <<"rs", "js", "ts", "py", "lua", "toml", "md">>

\* C14: whatever the state of the plugin when file_types() is called, the ids
\* of the descriptors it returns are pairwise distinct, so are their
\* extensions, and the descriptors come in the one documented order.
C14_FileTypesDistinctAndStable ==
    wret.op = "file_types" =>
        /\ \A i, j \in DOMAIN wret.list :
              i # j => /\ wret.list[i].id # wret.list[j].id
                       /\ wret.list[i].extension # wret.list[j].extension
        /\ [i \in DOMAIN wret.list |-> wret.list[i].extension] = DocumentedExtensions

\* file_types() called a second time, after an on_unload and with a record live
C14_Witness ==
    /\ wret.op = "file_types"
    /\ ops = 2
    /\ Clears # {}
    /\ editors # <<>>

\* C15: every file-type id that a descriptor returned by editors() lists as
\* supported is the id of a descriptor returned by file_types().
FileTypeIds == {FileTypes[i].id : i \in DOMAIN FileTypes}

C15_EditorsReferenceKnownFileTypes ==
    wret.op = "editors" =>
        \A i \in DOMAIN wret.list :
            \A j \in DOMAIN wret.list[i].supported_file_types :
                wret.list[i].supported_file_types[j] \in FileTypeIds

C15_Witness ==
    /\ wret.op = "editors"
    /\ Len(wret.list) = 1
    /\ Len(wret.list[1].supported_file_types) = Len(FileTypes)
    /\ editors # <<>>

\* C16: the path of a wrapper is the one create_editor was passed when it built
\* the wrapper's entity (entFile is written once, by open_file at line 179):
\* this holds for the wrappers the host holds, for the copies in the records
\* and for every value file_path() returns, after any save, reload or
\* is_dirty call and after on_unload.
C16_FilePathIsCreationPath ==
    /\ \A w \in hostWrappers :
          /\ w.panel \in Entities
          /\ FilePath(w) = entFile[w.panel]
    /\ \A k \in DOMAIN editors :
          FilePath(editors[k].wrapper) = entFile[editors[k].panel]
    /\ \A t \in Threads :
          ret[t].tag = "Ok" => FilePath(ret[t].wrapper) = entFile[ret[t].panel]
    /\ wret.op = "file_path" => wret.path = entFile[wret.panel]

\* file_path() answered after a failed save and an on_unload
C16_Witness ==
    /\ wret.op = "file_path"
    /\ wret.path = "/tmp/b.rs"
    /\ entOps = <<EntityOp("plugin_save", wret.panel, "Err")>>
    /\ Clears # {}
    /\ editors = <<>>

\* C17: a save or reload call invokes plugin_save or plugin_reload of the
\* wrapper's entity exactly once and returns what that invocation reported,
\* error or success; it changes neither the table nor the counter; no other
\* step invokes an operation of an entity.
DelegatedOp(op) == IF op = "save" THEN "plugin_save" ELSE "plugin_reload"

C17_SaveReloadDelegateOnceVerbatim ==
    [][IF ops' # ops /\ wret'.op \in {"save", "reload"}
       THEN /\ entOps' = Append(entOps, EntityOp(DelegatedOp(wret'.op),
                                                 wret'.panel, wret'.result))
            /\ wret'.result \in OpResults
            /\ UNCHANGED <<editors, next_editor_id>>
       ELSE entOps' = entOps]_vars

\* a failed save followed by a successful reload of the same entity, its
\* record in the table
C17_Witness ==
    /\ entOps = <<EntityOp("plugin_save", 1, "Err"),
                  EntityOp("plugin_reload", 1, "Ok")>>
    /\ wret.op = "reload"
    /\ wret.result = "Ok"
    /\ StoreHolds(1)

\* C18: no thread ever holds the counter lock and the table lock together,
\* and under fair scheduling every create_editor and on_unload call that has
\* started returns, holding no lock.
HoldsBothLocks(t) == edLock = t /\ idLock = t

Returned(t) == pc[t] = "done" /\ edLock # t /\ idLock # t

C18_NoDeadlockEveryCallReturns ==
    /\ [](\A t \in Threads : ~HoldsBothLocks(t))
    /\ \A t \in Threads : (InCreate(t) \/ InUnload(t)) ~> Returned(t)

\* a create_editor that allocated its id waits for the table lock, which an
\* on_unload holds, while the counter lock is free for the next call
C18_Witness ==
    \E t, u \in Threads :
        /\ pc[t] = "lock_editors"
        /\ pc[u] = "u_clear"
        /\ edLock = u
        /\ idLock = NoThread
        /\ editors # <<>>

\* C19: ids are handed out contiguously from 0: the k-th allocation, in the
\* order of the allocations, takes id k-1, and the counter equals the number
\* of allocations made so far; every call that passed the test of the editor
\* kind has built exactly one entity and no other call has; only the
\* increment of a create_editor call for the registered kind changes the
\* counter, so a failing call, on_load and on_unload leave it as it is.
PassedCheckNotAllocated(t) == pc[t] \in {"lock_id", "incr_id"}

AllocationStep(t) ==
    /\ pc[t] = "incr_id"
    /\ pc'[t] = "lock_editors"
    /\ editor_id[t] = RegisteredKind
    /\ next_editor_id' = next_editor_id + 1

ConstructionStep(t) ==
    /\ pc[t] = "idle"
    /\ pc'[t] = "lock_id"
    /\ editor_id'[t] = RegisteredKind

C19_IdsContiguousFromZero ==
    /\ [](/\ \A i \in Allocs : hist[i].n = Cardinality({j \in Allocs : j < i})
          /\ next_editor_id = Cardinality(Allocs)
          /\ Cardinality(Entities) = Cardinality(Allocs)
                 + Cardinality({t \in Threads : PassedCheckNotAllocated(t)}))
    /\ [][/\ next_editor_id' # next_editor_id
                => \E t \in Threads : AllocationStep(t)
          /\ Entities' # Entities
                => \E t \in Threads : ConstructionStep(t)]_vars

\* after one allocation and an on_unload, a call has failed with
\* EditorNotFound and another has passed the test but not allocated yet
C19_Witness ==
    \E t, u \in Threads :
        /\ pc[t] = "done"
        /\ ret[t].tag = "EditorNotFound"
        /\ pc[u] = "lock_id"
        /\ next_editor_id = 1
        /\ Clears # {}

\* C20: every key of the table is below the counter, and the table holds at
\* most as many records as the counter says minus the calls that have
\* allocated an id and not inserted their record yet.
C20_KeysBelowCounter ==
    /\ \A k \in DOMAIN editors : k < next_editor_id
    /\ Cardinality(DOMAIN editors) + Cardinality({t \in Threads : AllocatedNotInserted(t)})
           <= next_editor_id

\* the bound is met: no on_unload so far, records in the table and a call
\* between its allocation and its insertion
C20_Witness ==
    \E t \in Threads :
        /\ AllocatedNotInserted(t)
        /\ Cardinality(DOMAIN editors) + 1 = next_editor_id
        /\ editors # <<>>
        /\ Clears = {}

====
